---- MODULE Spec2Model ----
(***************************************************************************)
(* Flask-User access-control decorators (flask_user/decorators.py):        *)
(* login_required, roles_required, confirm_email_required and the helper   *)
(* user_has_confirmed_email.  Each decorated_view is modelled statement by *)
(* statement; `calls' records, in order, every collaborator the call       *)
(* evaluates or invokes, `result' is what the guarded call returns.        *)
(***************************************************************************)
EXTENDS Integers, Sequences, FiniteSets, TLC

\* ---------------------------------------------------------------- bounds
MaxTerms == 1
MaxTupleLen == 2
MaxEmails == 3

\* ------------------------------------------------------------ value sets
None == "None"
Roles == {"a", "b", "c", "d"}
UserIds == {1, 2}
Timestamps == {"2014-01-01"}
Guards == {"login_required", "roles_required", "confirm_email_required"}

\* A requirement of roles_required(*required_roles): a role_name or a
\* tuple_of_role_names.
RoleName(r) == [tuple |-> FALSE, names |-> {r}]
TupleOfRoleNames(s) == [tuple |-> TRUE, names |-> s]
Requirements ==
    {RoleName(r) : r \in Roles}
        \cup {TupleOfRoleNames(s) : s \in {t \in SUBSET Roles : Cardinality(t) <= MaxTupleLen}}

SeqsUpTo(S, n) == UNION {[1..k -> S] : k \in 0..n}

\* The shape of the docstring's example, roles_required('a', ('b', 'c'), d),
\* over every choice of role names.
DocstringRequirementLists ==
    {<<RoleName(w), TupleOfRoleNames({x, y}), RoleName(z)>> : w \in Roles, x \in Roles, y \in Roles, z \in Roles}

RequirementLists == SeqsUpTo(Requirements, MaxTerms) \cup DocstringRequirementLists

\* flask.ext.login current_user, as far as the decorators read it.
Principals == [is_authenticated : BOOLEAN, roles : SUBSET Roles, has_confirmed_email : BOOLEAN]
AnonymousUser == [is_authenticated |-> FALSE, roles |-> {}, has_confirmed_email |-> FALSE]

\* current_app.user_manager configuration flags.
UserManagers == [enable_email : BOOLEAN, enable_confirm_email : BOOLEAN]
DefaultUserManager == [enable_email |-> TRUE, enable_confirm_email |-> TRUE]

\* (*args, **kwargs) of a guarded call; kwargs as a set of <<key, value>>.
CallArguments ==
    {[args |-> <<>>, kwargs |-> {}], [args |-> <<"x">>, kwargs |-> {<<"id", "y">>}]}
NoArguments == [args |-> <<>>, kwargs |-> {}]

\* Responses.  The wrapped view echoes what it was called with, so that a
\* change of its arguments or of its result is observable.
Response(view, a, k) == [view |-> view, args |-> a, kwargs |-> k]
NoResponse == Response("none", <<>>, {})
func(a, k) == Response("func", a, k)
unauthenticated_view_function == Response("unauthenticated_view_function", <<>>, {})
unauthorized_view_function == Response("unauthorized_view_function", <<>>, {})
unconfirmed_email_view_function == Response("unconfirmed_email_view_function", <<>>, {})

\* db_adapter and the user records it serves.
UserEmails == [user_id : UserIds, confirmed_at : {None} \cup Timestamps]
DbAdapters == [UserEmailClass : BOOLEAN, emails : SeqsUpTo(UserEmails, MaxEmails)]
NoDbAdapter == [UserEmailClass |-> FALSE, emails |-> <<>>]
Users == [id : UserIds, confirmed_at : {None} \cup Timestamps]
NoUser == [id |-> 1, confirmed_at |-> None]

VARIABLES
    op,                 \* the function being executed
    pc,                 \* position in it
    current_user,       \* the principal of this request
    user_manager,       \* configuration flags
    required_roles,     \* roles_required's closure variable
    call,               \* (*args, **kwargs)
    calls,              \* collaborators evaluated / invoked, in order
    result,             \* what decorated_view returned
    prev,               \* view chosen by the preceding identical call
    db_adapter,
    user,               \* argument of user_has_confirmed_email
    user_emails,        \* local: query result
    idx,                \* local: position of the for loop
    has_confirmed_email,\* local / return value
    stdout              \* print() output

vars == <<op, pc, current_user, user_manager, required_roles, call, calls, result,
          prev, db_adapter, user, user_emails, idx, has_confirmed_email, stdout>>

request == <<op, current_user, user_manager, required_roles, call>>
helper == <<db_adapter, user, user_emails, idx, has_confirmed_email, stdout>>

Init ==
    /\ op = "none"
    /\ pc = "idle"
    /\ current_user = AnonymousUser
    /\ user_manager = DefaultUserManager
    /\ required_roles = <<>>
    /\ call = NoArguments
    /\ calls = <<>>
    /\ result = NoResponse
    /\ prev = "none"
    /\ db_adapter = NoDbAdapter
    /\ user = NoUser
    /\ user_emails = <<>>
    /\ idx = 1
    /\ has_confirmed_email = FALSE
    /\ stdout = <<>>

ResetHelper ==
    /\ db_adapter' = NoDbAdapter
    /\ user' = NoUser
    /\ user_emails' = <<>>
    /\ idx' = 1
    /\ has_confirmed_email' = FALSE
    /\ stdout' = <<>>

Idle == pc = "idle"

\* The call has returned and the request is over: nothing of it is kept.
Finish ==
    /\ pc = "done"
    /\ op' = "none"
    /\ pc' = "idle"
    /\ current_user' = AnonymousUser
    /\ user_manager' = DefaultUserManager
    /\ required_roles' = <<>>
    /\ call' = NoArguments
    /\ calls' = <<>>
    /\ result' = NoResponse
    /\ prev' = "none"
    /\ ResetHelper

\* ------------------------------------------------- requests from the host
\* The host routes a request to a guarded view: it binds current_user and
\* calls decorated_view(*args, **kwargs).
Request(g, u, um, rr, c) ==
    /\ op' = g
    /\ pc' = "start"
    /\ current_user' = u
    /\ user_manager' = um
    /\ required_roles' = rr
    /\ call' = c
    /\ calls' = <<>>
    /\ result' = NoResponse
    /\ prev' = "none"
    /\ ResetHelper

RequestLogin ==
    /\ Idle
    /\ \E u \in Principals, c \in CallArguments :
            Request("login_required", u, DefaultUserManager, <<>>, c)

RequestRoles ==
    /\ Idle
    /\ \E u \in Principals, rr \in RequirementLists, c \in CallArguments :
            Request("roles_required", u, DefaultUserManager, rr, c)

RequestConfirmEmail ==
    /\ Idle
    /\ \E u \in Principals, um \in UserManagers, c \in CallArguments :
            Request("confirm_email_required", u, um, <<>>, c)

\* The same guarded view is invoked again with identical principal state,
\* configuration and arguments.
Reinvoke ==
    /\ pc = "done"
    /\ op \in Guards
    /\ pc' = "start"
    /\ calls' = <<>>
    /\ prev' = result.view
    /\ result' = NoResponse
    /\ UNCHANGED <<request, helper>>

\* ----------------------------------------------------- shared statements
Evaluate(name, next) ==
    /\ calls' = Append(calls, name)
    /\ pc' = next
    /\ UNCHANGED <<request, result, prev, helper>>

Return(name, response) ==
    /\ calls' = Append(calls, name)
    /\ result' = response
    /\ pc' = "done"
    /\ UNCHANGED <<request, prev, helper>>

\* ---------------------------------------------------------- login_required
\* Fault: the decision depends on what the preceding call decided.
LoginBranchOnce(u) ==
    IF ~u.is_authenticated \/ prev = "func" THEN "unauthenticated" ELSE "func"

\* `if not current_user.is_authenticated():'
LoginBranch(u) == IF ~u.is_authenticated THEN "unauthenticated" ELSE "func"

LoginIsAuthenticated ==
    /\ op = "login_required" /\ pc = "start"
    /\ Evaluate("is_authenticated", LoginBranch(current_user))

LoginUnauthenticated ==
    /\ op = "login_required" /\ pc = "unauthenticated"
    /\ Return("unauthenticated_view_function", unauthenticated_view_function)

\* Fault: the keyword arguments are not passed on to the view.
LoginFuncDropsKwargs ==
    /\ op = "login_required" /\ pc = "func"
    /\ Return("func", func(call.args, {}))

LoginFunc ==
    /\ op = "login_required" /\ pc = "func"
    /\ Return("func", func(call.args, call.kwargs))

\* ---------------------------------------------------------- roles_required
\* UserMixin.has_roles(*requirements): every requirement must be accepted; a
\* role_name when the user has it, a tuple_of_role_names when the user has
\* one of them.
RequirementAccepted(u, r) ==
    IF r.tuple
    THEN \E n \in r.names : n \in u.roles
    ELSE \A n \in r.names : n \in u.roles

has_roles(u, requirements) ==
    \A i \in 1..Len(requirements) : RequirementAccepted(u, requirements[i])

\* Fault: an anonymous caller is sent to the unauthorized page.
RolesAuthBranchUnauthorized(u) == IF ~u.is_authenticated THEN "unauthorized" ELSE "has_roles"

\* Fault: the authentication test is missing.
RolesAuthBranchSkipped(u) == "has_roles"

\* `if not current_user.is_authenticated():'
RolesAuthBranch(u) == IF ~u.is_authenticated THEN "unauthenticated" ELSE "has_roles"

\* Fault: the `not' of the role test is missing.
RolesBranchInverted(u, rr) == IF has_roles(u, rr) THEN "unauthorized" ELSE "func"

\* Fault: only the first requirement is passed to has_roles.
RolesBranchFirstOnly(u, rr) ==
    IF ~has_roles(u, SubSeq(rr, 1, IF Len(rr) > 0 THEN 1 ELSE 0)) THEN "unauthorized" ELSE "func"

\* `if not current_user.has_roles(*required_roles):'
RolesBranch(u, rr) == IF ~has_roles(u, rr) THEN "unauthorized" ELSE "func"

RolesIsAuthenticated ==
    /\ op = "roles_required" /\ pc = "start"
    /\ Evaluate("is_authenticated", RolesAuthBranch(current_user))

RolesUnauthenticated ==
    /\ op = "roles_required" /\ pc = "unauthenticated"
    /\ Return("unauthenticated_view_function", unauthenticated_view_function)

RolesHasRoles ==
    /\ op = "roles_required" /\ pc = "has_roles"
    /\ Evaluate("has_roles", RolesBranch(current_user, required_roles))

RolesUnauthorized ==
    /\ op = "roles_required" /\ pc = "unauthorized"
    /\ Return("unauthorized_view_function", unauthorized_view_function)

RolesFunc ==
    /\ op = "roles_required" /\ pc = "func"
    /\ Return("func", func(call.args, call.kwargs))

\* -------------------------------------------------- confirm_email_required
\* An attribute read: moves on without calling a collaborator.
Goto(next) ==
    /\ pc' = next
    /\ UNCHANGED <<request, calls, result, prev, helper>>

\* Fault: the authentication test is missing.
ConfirmAuthBranchAlways(u) == "enable_email"

\* `if current_user.is_authenticated():'
ConfirmAuthBranch(u) == IF u.is_authenticated THEN "enable_email" ELSE "unconfirmed"

\* Fault: `and' in place of `or' between the two flags.
EnableEmailBranchAnd(um) ==
    IF ~um.enable_email /\ ~um.enable_confirm_email THEN "func" ELSE "enable_confirm_email"

\* `if not user_manager.enable_email\'
EnableEmailBranch(um) == IF ~um.enable_email THEN "func" ELSE "enable_confirm_email"

\* `or not user_manager.enable_confirm_email\'
EnableConfirmEmailBranch(um) ==
    IF ~um.enable_confirm_email THEN "func" ELSE "has_confirmed_email"

\* `or current_user.has_confirmed_email():'
HasConfirmedEmailBranch(u) == IF u.has_confirmed_email THEN "func" ELSE "unconfirmed"

ConfirmIsAuthenticated ==
    /\ op = "confirm_email_required" /\ pc = "start"
    /\ Evaluate("is_authenticated", ConfirmAuthBranch(current_user))

ConfirmEnableEmail ==
    /\ op = "confirm_email_required" /\ pc = "enable_email"
    /\ Goto(EnableEmailBranch(user_manager))

ConfirmEnableConfirmEmail ==
    /\ op = "confirm_email_required" /\ pc = "enable_confirm_email"
    /\ Goto(EnableConfirmEmailBranch(user_manager))

ConfirmHasConfirmedEmail ==
    /\ op = "confirm_email_required" /\ pc = "has_confirmed_email"
    /\ Evaluate("has_confirmed_email", HasConfirmedEmailBranch(current_user))

ConfirmFunc ==
    /\ op = "confirm_email_required" /\ pc = "func"
    /\ Return("func", func(call.args, call.kwargs))

ConfirmUnconfirmed ==
    /\ op = "confirm_email_required" /\ pc = "unconfirmed"
    /\ Return("unconfirmed_email_view_function", unconfirmed_email_view_function)

\* ------------------------------------------------ user_has_confirmed_email
RequestUserHasConfirmedEmail ==
    /\ Idle
    /\ \E db \in DbAdapters, usr \in Users :
        /\ op' = "user_has_confirmed_email"
        /\ pc' = "start"
        /\ current_user' = AnonymousUser
        /\ user_manager' = DefaultUserManager
        /\ required_roles' = <<>>
        /\ call' = NoArguments
        /\ calls' = <<>>
        /\ result' = NoResponse
        /\ prev' = "none"
        /\ db_adapter' = db
        /\ user' = usr
        /\ user_emails' = <<>>
        /\ idx' = 1
        /\ has_confirmed_email' = FALSE
        /\ stdout' = <<>>

\* Python truth value of a confirmed_at column: None or a datetime.
Truthy(v) == v # None

\* db_adapter.find_all_objects(ObjectClass, **kwargs): the records whose
\* fields equal the keyword arguments, here user_id.
find_all_objects(objects, user_id) == SelectSeq(objects, LAMBDA o : o.user_id = user_id)

guard == <<request, calls, result, prev, db_adapter, user>>

\* `if db_adapter.UserEmailClass:'
AdapterBranch(db) == IF db.UserEmailClass THEN "query" ELSE "single"

UhceBranch ==
    /\ op = "user_has_confirmed_email" /\ pc = "start"
    /\ pc' = AdapterBranch(db_adapter)
    /\ UNCHANGED <<guard, user_emails, idx, has_confirmed_email, stdout>>

UhceQuery ==
    /\ op = "user_has_confirmed_email" /\ pc = "query"
    /\ has_confirmed_email' = FALSE
    /\ stdout' = Append(stdout, "1")
    /\ user_emails' = find_all_objects(db_adapter.emails, user.id)
    /\ idx' = 1
    /\ pc' = "for"
    /\ UNCHANGED guard

\* `if user_email.confirmed_at:'
EmailConfirmed(user_email) == Truthy(user_email.confirmed_at)

\* Fault: the loop stops after the first record.
UhceForNextStops ==
    /\ op = "user_has_confirmed_email" /\ pc = "for"
    /\ idx <= Len(user_emails)
    /\ ~EmailConfirmed(user_emails[idx])
    /\ stdout' = Append(stdout, "2")
    /\ pc' = "done"
    /\ UNCHANGED <<guard, user_emails, idx, has_confirmed_email>>

\* One iteration of `for user_email in user_emails:' that does not break.
UhceForNext ==
    /\ op = "user_has_confirmed_email" /\ pc = "for"
    /\ idx <= Len(user_emails)
    /\ ~EmailConfirmed(user_emails[idx])
    /\ stdout' = Append(stdout, "2")
    /\ idx' = idx + 1
    /\ UNCHANGED <<guard, pc, user_emails, has_confirmed_email>>

\* The iteration that finds a confirmed email and breaks.
UhceForBreak ==
    /\ op = "user_has_confirmed_email" /\ pc = "for"
    /\ idx <= Len(user_emails)
    /\ EmailConfirmed(user_emails[idx])
    /\ stdout' = stdout \o <<"2", "3">>
    /\ has_confirmed_email' = TRUE
    /\ pc' = "done"
    /\ UNCHANGED <<guard, user_emails, idx>>

\* The loop is exhausted; `return has_confirmed_email'.
UhceForEnd ==
    /\ op = "user_has_confirmed_email" /\ pc = "for"
    /\ idx > Len(user_emails)
    /\ pc' = "done"
    /\ UNCHANGED <<guard, user_emails, idx, has_confirmed_email, stdout>>

\* `has_confirmed_email = True if user.confirmed_at else False'
SingleEmailConfirmed(usr) == IF Truthy(usr.confirmed_at) THEN TRUE ELSE FALSE

UhceSingle ==
    /\ op = "user_has_confirmed_email" /\ pc = "single"
    /\ has_confirmed_email' = SingleEmailConfirmed(user)
    /\ pc' = "done"
    /\ UNCHANGED <<guard, user_emails, idx, stdout>>

Next ==
    \/ RequestLogin
    \/ RequestRoles
    \/ RequestConfirmEmail
    \/ RequestUserHasConfirmedEmail
    \/ Reinvoke
    \/ Finish
    \/ LoginIsAuthenticated
    \/ LoginUnauthenticated
    \/ LoginFunc
    \/ RolesIsAuthenticated
    \/ RolesUnauthenticated
    \/ RolesHasRoles
    \/ RolesUnauthorized
    \/ RolesFunc
    \/ ConfirmIsAuthenticated
    \/ ConfirmEnableEmail
    \/ ConfirmEnableConfirmEmail
    \/ ConfirmHasConfirmedEmail
    \/ ConfirmFunc
    \/ ConfirmUnconfirmed
    \/ UhceBranch
    \/ UhceQuery
    \/ UhceForNext
    \/ UhceForBreak
    \/ UhceForEnd
    \/ UhceSingle

Spec == Init /\ [][Next]_vars

\* ------------------------------------------------------------- properties
Invoked(name) == \E i \in 1..Len(calls) : calls[i] = name
Authenticated == current_user.is_authenticated
Returned(g) == op = g /\ pc = "done"

RolesRequiredUnauthenticated ==
    (op = "roles_required" /\ ~Authenticated) =>
        /\ ~Invoked("func")
        /\ ~Invoked("unauthorized_view_function")
        /\ pc = "done" =>
            /\ Invoked("unauthenticated_view_function")
            /\ result.view = "unauthenticated_view_function"

RolesRequiredUnauthenticatedWitness ==
    /\ Returned("roles_required")
    /\ ~Authenticated
    /\ Len(required_roles) > 0
    /\ has_roles(current_user, required_roles)
    /\ result.view = "unauthenticated_view_function"

\* C3: a roles_required-guarded call by an authenticated principal for whom
\* has_roles(*required_roles) is false returns the result of
\* unauthorized_view_function() and invokes neither the wrapped view nor
\* unauthenticated_view_function(); when has_roles is true the wrapped view is
\* invoked and its result returned.
RolesRequiredUnauthorized ==
    (op = "roles_required" /\ Authenticated) =>
        /\ ~Invoked("unauthenticated_view_function")
        /\ ~has_roles(current_user, required_roles) =>
            /\ ~Invoked("func")
            /\ pc = "done" =>
                /\ Invoked("unauthorized_view_function")
                /\ result.view = "unauthorized_view_function"
        /\ has_roles(current_user, required_roles) =>
            /\ ~Invoked("unauthorized_view_function")
            /\ pc = "done" =>
                /\ Invoked("func")
                /\ result = [view |-> "func", args |-> call.args, kwargs |-> call.kwargs]

RolesRequiredUnauthorizedWitness ==
    /\ Returned("roles_required")
    /\ Authenticated
    /\ current_user.roles # {}
    /\ ~has_roles(current_user, required_roles)
    /\ result.view = "unauthorized_view_function"

\* C4: for an authenticated principal the roles_required-guarded view is
\* invoked iff every term is satisfied, a role name when the principal holds
\* it and a tuple when the principal holds at least one of its names; so
\* roles_required('a', ('b', 'c'), 'd') passes iff a AND (b OR c) AND d, and
\* roles_required() passes every authenticated principal.
Holds(r) == r \in current_user.roles
TermSatisfied(t) == \E n \in t.names : Holds(n)
DocstringExample ==
    <<[tuple |-> FALSE, names |-> {"a"}], [tuple |-> TRUE, names |-> {"b", "c"}],
      [tuple |-> FALSE, names |-> {"d"}]>>

RolesRequiredExpression ==
    (Returned("roles_required") /\ Authenticated) =>
        /\ Invoked("func") <=> \A i \in 1..Len(required_roles) : TermSatisfied(required_roles[i])
        /\ required_roles = DocstringExample =>
            (Invoked("func") <=> (Holds("a") /\ (Holds("b") \/ Holds("c")) /\ Holds("d")))
        /\ required_roles = <<>> => Invoked("func")

RolesRequiredExpressionWitness ==
    /\ Returned("roles_required")
    /\ Authenticated
    /\ required_roles = DocstringExample
    /\ current_user.roles = {"a", "c", "d"}
    /\ result.view = "func"

\* C5: a confirm_email_required-guarded call invokes the wrapped view iff the
\* principal is authenticated and (email confirmation is disabled by
\* configuration or the principal has a confirmed email); otherwise, an
\* unauthenticated principal included, it returns the result of
\* unconfirmed_email_view_function(); it never invokes
\* unauthenticated_view_function() or unauthorized_view_function().
EmailConfirmationDisabled ==
    ~user_manager.enable_email \/ ~user_manager.enable_confirm_email

ConfirmEmailSatisfied ==
    Authenticated /\ (EmailConfirmationDisabled \/ current_user.has_confirmed_email)

ReturnedEmails == find_all_objects(db_adapter.emails, user.id)

SomeEmailConfirmed ==
    \E i \in 1..Len(ReturnedEmails) : ReturnedEmails[i].confirmed_at # None

UserHasConfirmedEmailResult ==
    Returned("user_has_confirmed_email") =>
        /\ has_confirmed_email \in BOOLEAN
        /\ has_confirmed_email =
            IF db_adapter.UserEmailClass THEN SomeEmailConfirmed ELSE user.confirmed_at # None

UserHasConfirmedEmailWitness ==
    /\ Returned("user_has_confirmed_email")
    /\ db_adapter.UserEmailClass
    /\ user.confirmed_at = None
    /\ Len(user_emails) >= 2
    /\ user_emails[1].confirmed_at = None
    /\ user_emails[Len(user_emails)].confirmed_at # None
    /\ has_confirmed_email

\* C7: in a roles_required-guarded call has_roles is never evaluated before
\* is_authenticated has returned, and not at all when the principal is
\* unauthenticated.
AuthenticationBeforeRoles ==
    op = "roles_required" =>
        /\ \A i \in 1..Len(calls) :
            calls[i] = "has_roles" => \E j \in 1..(i - 1) : calls[j] = "is_authenticated"
        /\ pc = "has_roles" => Invoked("is_authenticated")
        /\ ~Authenticated => ~Invoked("has_roles") /\ pc # "has_roles"

AuthenticationBeforeRolesWitness ==
    /\ op = "roles_required"
    /\ calls = <<"is_authenticated", "has_roles">>

\* C8: as the docstrings of login_required and confirm_email_required say,
\* when the user is not logged in the guarded view calls
\* unauthorized_view_function().
DocstringCallsUnauthorized ==
    ((Returned("login_required") \/ Returned("confirm_email_required")) /\ ~Authenticated)
        => Invoked("unauthorized_view_function")

\* C9: invoking the same guarded view again with identical principal state,
\* configuration and arguments yields the same routing decision every time,
\* and a guarded call writes no state a later call reads.
Running == op \in Guards /\ pc \notin {"idle", "done"}

EitherFlagOffPasses ==
    op = "confirm_email_required" =>
        /\ (Authenticated /\ ~user_manager.enable_email) =>
            (pc = "done" => result.view = "func")
        /\ (Authenticated /\ ~user_manager.enable_confirm_email) =>
            (pc = "done" => result.view = "func")
        /\ (Invoked("has_confirmed_email") \/ pc = "has_confirmed_email") =>
            /\ Authenticated
            /\ user_manager.enable_email
            /\ user_manager.enable_confirm_email

EitherFlagOffPassesWitness ==
    /\ Returned("confirm_email_required")
    /\ Authenticated
    /\ user_manager.enable_email
    /\ ~user_manager.enable_confirm_email
    /\ ~current_user.has_confirmed_email
    /\ result.view = "func"
====
